---- MODULE Spec2Model ----
(***************************************************************************)
(* BidFTAScraper: the sequential scraper (bidfta_scraper/scraper.py) and   *)
(* the asyncio scraper (bidfta_scraper/async_scraper.py) as one state      *)
(* machine.  A run is one call of scrape_search_terms on one scraper       *)
(* object, followed by the caller's call of the Output Step.               *)
(*                                                                         *)
(* Python values are modelled as follows.                                  *)
(*   - a JSON value is a tagged record: JObj(f), JArr(s), JNull;           *)
(*   - the result of evaluating an expression is Ok(v) or Raise(e), where  *)
(*     e names the exception class;                                        *)
(*   - the text of itemTimeRemaining and the formatted currency strings    *)
(*     are tuples of one-character strings, so float() and the format      *)
(*     specification are computed character by character;                  *)
(*   - money amounts are integers in cents.                                *)
(***************************************************************************)
EXTENDS FiniteSets, Integers, Sequences, TLC

\* ------------------------------------------------------------------ bounds
MaxTerms == 3
MaxConcurrent == 2

\* ------------------------------------------------------- Python exceptions
Ok(v) == [ok |-> TRUE, v |-> v]
Raise(e) == [ok |-> FALSE, exc |-> e]

\* The classes an exception of class e is an instance of.
ExceptionBases(e) ==
    CASE e \in {"ConnectionError", "HTTPError"} ->
            {e, "RequestException", "Exception"}
      [] e \in {"ClientConnectorError", "ClientResponseError"} ->
            {e, "ClientError", "Exception"}
      [] e = "JSONDecodeError" -> {e, "ValueError", "Exception"}
      [] OTHER -> {e, "Exception"}

\* try: body / except <classes>: the exception is handled iff one of the
\* except clauses names a class of it.
Handles(classes, e) == ExceptionBases(e) \cap classes # {}

\* A local variable: Value({body : name \in {e}}) is `name = e` followed by
\* the statements of body.  e is evaluated once, as an assignment does.
Value(S) == CHOOSE out \in S : TRUE

\* -------------------------------------------------------------- JSON values
JNull == [t |-> "null"]
JObj(f) == [t |-> "obj", v |-> f]
JArr(s) == [t |-> "arr", v |-> s]
EmptyDict == JObj(<<>>)
EmptyList == JArr(<<>>)

\* r.get(key, default) on the result r of the previous link of the chain:
\* AttributeError when the receiver is not a dict.
DictGet(r, key, default) ==
    Value({
        IF ~d.ok THEN d
        ELSE IF d.v.t # "obj" THEN Raise("AttributeError")
        ELSE IF key \in DOMAIN d.v.v THEN Ok(d.v.v[key]) ELSE Ok(default)
            : d \in {r}})

\* item_data.get(key, default) for one field of a raw listing object.
ItemGet(item_data, key, default) ==
    IF key \in DOMAIN item_data.v THEN item_data.v[key] ELSE default

\* ------------------------------------------------------------ Record Model
\* BidFTAItem(item_data, search_term): AttributeError when item_data has no
\* .get; every absent key takes its default.
BidFTAItem(item_data, search_term) ==
    IF item_data.t # "obj" THEN Raise("AttributeError")
    ELSE Ok([title          |-> ItemGet(item_data, "title", ""),
             current_bid    |-> ItemGet(item_data, "currentBid", 0),
             image_url      |-> ItemGet(item_data, "imageUrl", ""),
             end_datetime   |-> ItemGet(item_data, "utcEndDateTime", ""),
             time_remaining |-> ItemGet(item_data, "itemTimeRemaining", <<>>),
             msrp           |-> ItemGet(item_data, "msrp", 0),
             condition      |-> ItemGet(item_data, "condition", ""),
             lot_code       |-> ItemGet(item_data, "lotCode", ""),
             search_term    |-> search_term,
             bids_count     |-> ItemGet(item_data, "bidsCount", 0),
             auction_id     |-> ItemGet(item_data, "auctionId", "")])

\* to_dict: the flat mapping of one item (the same eleven keys).
to_dict(item) == item

\* --------------------------------------------------------- Extraction Step
\* for item_data in raw_items: items.append(BidFTAItem(item_data, term)).
\* The loop stops at the first exception; items keeps what was appended.
RECURSIVE AppendItems(_, _, _)
AppendItems(raw_items, search_term, items) ==
    IF raw_items = <<>> THEN [items |-> items, exc |-> "none"]
    ELSE Value({
            IF r.ok
            THEN AppendItems(Tail(raw_items), search_term, Append(items, r.v))
            ELSE [items |-> items, exc |-> r.exc]
            : r \in {BidFTAItem(Head(raw_items), search_term)}})

\* Iterating raw_items: a list yields its elements, None is not iterable,
\* a dict yields its keys (strings, which have no .get).
IterateRawItems(raw, search_term) ==
    CASE raw.t = "arr" -> AppendItems(raw.v, search_term, <<>>)
      [] raw.t = "obj" -> IF DOMAIN raw.v = {}
                          THEN [items |-> <<>>, exc |-> "none"]
                          ELSE [items |-> <<>>, exc |-> "AttributeError"]
      [] OTHER -> [items |-> <<>>, exc |-> "TypeError"]

\* What the try block of extract_items_from_json leaves in `items`, and the
\* exception (if any) that ended it.
ExtractTry(json_data, search_term) ==
    Value({
            IF raw_items.ok
            THEN IterateRawItems(raw_items.v, search_term)
            ELSE [items |-> <<>>, exc |-> raw_items.exc]
            : raw_items \in {DictGet(DictGet(DictGet(DictGet(Ok(json_data),
             "props", EmptyDict), "pageProps", EmptyDict),
             "initialData", EmptyDict), "items", EmptyList)}})

\* extract_items_from_json (both classes): `except Exception` logs, then
\* `return items`.
extract_items_from_json(json_data, search_term) ==
    Value({
        IF t.exc = "none" \/ Handles({"Exception"}, t.exc)
        THEN Ok(t.items)
        ELSE Raise(t.exc)
            : t \in {ExtractTry(json_data, search_term)}})

\* json.loads(script_tag.string)
JsonLoads(text) ==
    IF text.valid THEN Ok(text.doc) ELSE Raise("JSONDecodeError")

\* soup.find('script', {'id': '__NEXT_DATA__'}) then json.loads then
\* extract_items_from_json; no script tag gives no items.
ParseAndExtract(body, search_term) ==
    IF ~body.script THEN Ok(<<>>)
    ELSE Value({
            IF json_data.ok
            THEN extract_items_from_json(json_data.v, search_term)
            ELSE json_data
            : json_data \in {JsonLoads(body.text)}})

\* ------------------------------------------------------- upstream responses
\* What the site answers to one GET: conn = FALSE is a connection failure,
\* otherwise a status code and a body.  A body is the HTML text: empty or
\* not, with or without the __NEXT_DATA__ script, whose string is valid
\* JSON (text.doc) or not.
FullItem ==
    JObj([title |-> "Test Aquarium", currentBid |-> 5000,
          imageUrl |-> "http://example.com/image.jpg",
          utcEndDateTime |-> "2024-01-20T14:19:00Z",
          itemTimeRemaining |-> <<"3", "6", "0", "0">>,
          msrp |-> 10000, condition |-> "As Is", lotCode |-> "TEST123",
          bidsCount |-> 5, auctionId |-> "12345"])

\* The raw object of test_scrape_search_terms: no utcEndDateTime, no
\* itemTimeRemaining.
SparseItem ==
    JObj([title |-> "Test Item", currentBid |-> 1000, msrp |-> 2000,
          condition |-> "New", lotCode |-> "ABC123"])

NextData(items) ==
    JObj([props |-> JObj([pageProps |->
        JObj([initialData |-> JObj([items |-> JArr(items)])])])])

HtmlWithScript(valid, doc) ==
    [empty |-> FALSE, script |-> TRUE, text |-> [valid |-> valid, doc |-> doc]]
HtmlWithoutScript ==
    [empty |-> FALSE, script |-> FALSE, text |-> [valid |-> FALSE, doc |-> JNull]]
EmptyBody ==
    [empty |-> TRUE, script |-> FALSE, text |-> [valid |-> FALSE, doc |-> JNull]]

Response(status, body) == [conn |-> TRUE, status |-> status, body |-> body]
ConnectionFailure == [conn |-> FALSE, status |-> 0, body |-> EmptyBody]

\* The answers the model draws from.
Upstream ==
    << ConnectionFailure,
       Response(404, HtmlWithScript(TRUE, NextData(<<FullItem>>))),
       Response(200, HtmlWithoutScript),
       Response(200, EmptyBody),
       Response(200, HtmlWithScript(FALSE, JNull)),
       Response(200, HtmlWithScript(TRUE, JObj([props |-> JNull]))),
       Response(200, HtmlWithScript(TRUE, NextData(<<FullItem>>))),
       Response(200, HtmlWithScript(TRUE, NextData(<<FullItem, JNull>>))),
       Response(200, HtmlWithScript(TRUE, NextData(<<SparseItem>>))) >>

\* A transport-level failure: no connection, or a non-success status.
TransportFailure(o) == ~o.conn \/ o.status >= 400

\* ------------------------------------------------------------ Page Fetcher
Browser ==
    "Mozilla/5.0 (Windows NT 10.0; Win64; x64) AppleWebKit/537.36 (KHTML, like Gecko) Chrome/91.0.4472.124 Safari/537.36"

\* requests.Session() then session.headers.update({'User-Agent': ...}).
RequestsSessionHeaders ==
    [x \in {"User-Agent", "Accept"} |->
        IF x = "User-Agent" THEN Browser ELSE "*/*"]

\* aiohttp.ClientSession() is built with no headers argument, and
\* session.get(url) passes none: the request carries the library's default.
AiohttpSessionHeaders ==
    [x \in {"User-Agent", "Accept"} |->
        IF x = "User-Agent" THEN "Python/3 aiohttp/3" ELSE "*/*"]

build_url(search_term, location_id) ==
    [base |-> "https://www.bidfta.com/items", pageId |-> "1",
     itemSearchKeywords |-> search_term, locations |-> location_id]

\* The GET as it goes on the wire.
GetRequest(search_term, headers) ==
    [url |-> build_url(search_term, "616"), headers |-> headers]

\* session.get(url); response.raise_for_status()  (requests)
RequestsGet(o) ==
    IF ~o.conn THEN Raise("ConnectionError")
    ELSE IF o.status >= 400 /\ o.status < 600 THEN Raise("HTTPError")
    ELSE Ok(o.body)

\* session.get without raise_for_status().
AiohttpGetAnyStatus(o) ==
    IF ~o.conn THEN Raise("ClientConnectorError") ELSE Ok(o.body)

\* async with session.get(url) as response: response.raise_for_status()
AiohttpGet(o) ==
    IF ~o.conn THEN Raise("ClientConnectorError")
    ELSE IF o.status >= 400 THEN Raise("ClientResponseError")
    ELSE Ok(o.body)

\* ------------------------------------------- sequential scrape_search_term
SeqExceptClauses == {"RequestException", "JSONDecodeError", "Exception"}

\* scrape_search_term without its except clauses.
scrape_search_term_unguarded(o, search_term) ==
    Value({
        IF response.ok THEN ParseAndExtract(response.v, search_term)
        ELSE response
            : response \in {RequestsGet(o)}})

\* The try block: get, raise_for_status, parse, extract.
ScrapeTry(o, search_term) ==
    Value({
        IF response.ok THEN ParseAndExtract(response.v, search_term)
        ELSE response
            : response \in {RequestsGet(o)}})

scrape_search_term(o, search_term) ==
    Value({
        IF r.ok THEN r
        ELSE IF Handles(SeqExceptClauses, r.exc) THEN Ok(<<>>)
        ELSE r
            : r \in {ScrapeTry(o, search_term)}})

\* ------------------------------------------------ async scrape_search_term
\* fetch_page's result: the text, None after a handled aiohttp.ClientError.
NoneContent == [none |-> TRUE, body |-> EmptyBody]
Content(body) == [none |-> FALSE, body |-> body]

FetchExceptClauses == {"ClientError"}

fetch_page(o) ==
    Value({
        IF r.ok THEN Ok(Content(r.v))
        ELSE IF Handles(FetchExceptClauses, r.exc) THEN Ok(NoneContent)
        ELSE r
            : r \in {AiohttpGet(o)}})

\* `if html_content:`  -- None and the empty string are falsy.
Truthy(html_content) == ~html_content.none /\ ~html_content.body.empty

AsyncExceptClauses == {"Exception"}

\* The part of scrape_search_term after `await self.fetch_page(...)`.
\* The try block after the await.
AsyncScrapeTry(fetched, search_term) ==
    Value({
        IF ~html_content.ok THEN html_content
        ELSE IF Truthy(html_content.v)
             THEN ParseAndExtract(html_content.v.body, search_term)
             ELSE Ok(<<>>)
            : html_content \in {fetched}})

async_scrape_search_term(fetched, search_term) ==
    Value({
        IF r.ok THEN r
        ELSE IF Handles(AsyncExceptClauses, r.exc) THEN Ok(<<>>)
        ELSE r
            : r \in {AsyncScrapeTry(fetched, search_term)}})

\* ------------------------------------------- Aggregation / Normalization
ValidTimestamps == {"2024-01-20T14:19:00Z", "2024-01-20T00:00:00Z"}

\* pd.to_datetime on one value: the empty string parses to NaT, text that
\* is no timestamp raises.
to_datetime(s) ==
    IF s = "" THEN Ok("NaT")
    ELSE IF s \in ValidTimestamps THEN Ok(s)
    ELSE Raise("ValueError")

DigitChars == <<"0", "1", "2", "3", "4", "5", "6", "7", "8", "9">>
DigitValue(c) == CHOOSE d \in 0..9 : DigitChars[d + 1] = c
IsDigit(c) == \E d \in 0..9 : DigitChars[d + 1] = c

RECURSIVE DecimalValue(_)
DecimalValue(chars) ==
    IF chars = <<>> THEN 0
    ELSE 10 * DecimalValue(SubSeq(chars, 1, Len(chars) - 1))
         + DigitValue(chars[Len(chars)])

\* .astype(float) on one value of the time_remaining column: float('')
\* and float of a non-number raise ValueError.
ParseFloat(chars) ==
    IF chars # <<>> /\ \A k \in 1..Len(chars) : IsDigit(chars[k])
    THEN Ok(DecimalValue(chars))
    ELSE Raise("ValueError")

RECURSIVE Digits(_)
Digits(n) ==
    IF n < 10 THEN <<DigitChars[n + 1]>>
    ELSE Append(Digits(n \div 10), DigitChars[(n % 10) + 1])

\* n as exactly k digits, zero padded on the left.
RECURSIVE Padded(_, _)
Padded(n, k) ==
    IF k = 0 THEN <<>>
    ELSE Append(Padded(n \div 10, k - 1), DigitChars[(n % 10) + 1])

RECURSIVE Thousands(_)
Thousands(n) ==
    IF n < 1000 THEN Digits(n)
    ELSE Thousands(n \div 1000) \o <<",">> \o Padded(n % 1000, 3)

\* f"${x:,.2f}" for an amount of `cents` cents.
FormatCurrency(cents) ==
    <<"$">> \o Thousands(cents \div 100) \o <<".">> \o Padded(cents % 100, 2)

\* One row of the processed DataFrame.
ProcessRow(row) ==
    [title           |-> row.title,
     current_bid     |-> FormatCurrency(row.current_bid),
     image_url       |-> row.image_url,
     end_datetime    |-> to_datetime(row.end_datetime).v,
     time_remaining  |-> row.time_remaining,
     msrp            |-> FormatCurrency(row.msrp),
     condition       |-> row.condition,
     lot_code        |-> row.lot_code,
     search_term     |-> row.search_term,
     bids_count      |-> row.bids_count,
     auction_id      |-> row.auction_id,
     hours_remaining |-> [num |-> ParseFloat(row.time_remaining).v, den |-> 3600]]

\* df = pd.DataFrame(all_items); if not df.empty: the four column
\* assignments, each over the whole column, the first failure raising.
BuildTable(all_items) ==
    IF all_items = <<>> THEN Ok(<<>>)
    ELSE IF \E k \in 1..Len(all_items) :
                ~to_datetime(all_items[k].end_datetime).ok
         THEN Raise("ValueError")
    ELSE IF \E k \in 1..Len(all_items) :
                ~ParseFloat(all_items[k].time_remaining).ok
         THEN Raise("ValueError")
    ELSE Ok([k \in 1..Len(all_items) |-> ProcessRow(all_items[k])])

\* all_items.extend([item.to_dict() for item in items])
Extend(all_items, items) ==
    all_items \o [k \in 1..Len(items) |-> to_dict(items[k])]

\* The per-term lists put together last term first.
RECURSIVE FlattenReversed(_, _)
FlattenReversed(results, n) ==
    IF n = 0 THEN <<>>
    ELSE Extend(<<>>, results[n]) \o FlattenReversed(results, n - 1)

\* for items in results: all_items.extend(...)  -- results is the list
\* asyncio.gather returns, indexed by the position of the task.
RECURSIVE Flatten(_, _)
Flatten(results, n) ==
    IF n = 0 THEN <<>>
    ELSE Extend(Flatten(results, n - 1), results[n])

\* ------------------------------------------------------------- Output Step
PriorFile == [written |-> FALSE, header |-> <<>>, rows |-> <<>>]

DisplayColumns == <<"title", "current_bid", "hours_remaining", "search_term">>

\* df[display_columns].to_string()
Display(table) ==
    [k \in 1..Len(table) |->
        [title |-> table[k].title, current_bid |-> table[k].current_bid,
         hours_remaining |-> table[k].hours_remaining,
         search_term |-> table[k].search_term]]

\* df.to_csv(save_path, index=False)
to_csv(table) ==
    [written |-> TRUE,
     header |-> <<"title", "current_bid", "image_url", "end_datetime",
                  "time_remaining", "msrp", "condition", "lot_code",
                  "search_term", "bids_count", "auction_id",
                  "hours_remaining">>,
     rows |-> table]

\* `if df.empty:`
IsEmptyTable(table) == table = <<>>

\* `if save_path:`  -- None and '' are falsy.
SavePathGiven(save_path) == save_path # ""

\* ------------------------------------------------------------------ state
VARIABLES
    mode,                    \* "sequential": BidFTAScraper, "concurrent": AsyncBidFTAScraper
    search_terms,            \* the argument of scrape_search_terms
    max_concurrent_requests, \* self.max_concurrent_requests (0: no gate, sequential)
    semaphore,               \* the free slots of self.semaphore
    pc_main,                 \* where scrape_search_terms and its caller are
    idx,                     \* sequential: position of `term` in the for loop
    task_pc,                 \* concurrent: where each term task is
    outcome,                 \* what the site answered for each term
    results,                 \* the item list each term's scrape returned
    paced,                   \* concurrent: the task finished asyncio.sleep(request_delay)
    slept,                   \* sequential: how often time.sleep(request_delay) ran after each term
    overtaken,               \* concurrent: some task finished before the task of an earlier term
    sent,                    \* the GET requests put on the wire
    all_items,               \* the flattened list of flat mappings
    df,                      \* the table scrape_search_terms returned
    save_path,               \* the save_path the Output Step was called with
    out_log,                 \* what the Output Step logged
    stdout,                  \* what the Output Step printed
    file                     \* the file at the save path

vars == <<mode, search_terms, max_concurrent_requests, semaphore, pc_main, idx,
          task_pc, outcome, results, paced, slept, overtaken, sent, all_items, df,
          save_path, out_log, stdout, file>>

\* search_terms of main.py; the model scrapes a prefix of it.
TermPool == <<"aquarium", "fish tank", "filter", "monitor", "sensor", "motor">>

Pending == [conn |-> FALSE, status |-> -1, body |-> EmptyBody]

Terms == 1..Len(search_terms)

Init ==
    /\ mode \in {"sequential", "concurrent"}
    /\ \E n \in 0..MaxTerms : search_terms = SubSeq(TermPool, 1, n)
    /\ max_concurrent_requests \in
          IF mode = "concurrent" THEN 1..MaxConcurrent ELSE {0}
    /\ semaphore = max_concurrent_requests
    /\ pc_main = "start"
    /\ idx = 1
    /\ task_pc = [i \in Terms |-> "none"]
    /\ outcome = [i \in Terms |-> Pending]
    /\ results = [i \in Terms |-> <<>>]
    /\ paced = [i \in Terms |-> FALSE]
    /\ slept = [i \in Terms |-> 0]
    /\ overtaken = FALSE
    /\ sent = {}
    /\ all_items = <<>>
    /\ df = <<>>
    /\ save_path = ""
    /\ out_log = <<>>
    /\ stdout = <<>>
    /\ file = PriorFile

\* ------------------------------------------------- the counting gate
\* asyncio.Semaphore: acquire proceeds only while a slot is free.
SemaphoreFreeAlways(value) == TRUE
SemaphoreFree(value) == value > 0
SemaphoreAcquire(value) == value - 1
SemaphoreRelease(value) == value + 1

\* ------------------------------------------------------- sequential mode
\* for term in search_terms: ... self.session.get(url) goes on the wire.
SeqSend ==
    /\ mode = "sequential"
    /\ pc_main = "start"
    /\ idx <= Len(search_terms)
    /\ sent' = sent \cup {GetRequest(search_terms[idx], RequestsSessionHeaders)}
    /\ pc_main' = "request"
    /\ UNCHANGED <<mode, search_terms, max_concurrent_requests, semaphore, idx,
                   task_pc, outcome, results, paced, slept, overtaken, all_items, df,
                   save_path, out_log, stdout, file>>

\* The answer arrives; scrape_search_term runs to its return and the loop
\* body extends all_items.
SeqReceive ==
    /\ mode = "sequential"
    /\ pc_main = "request"
    /\ \E k \in 1..Len(Upstream) :
        \E r \in {scrape_search_term(Upstream[k], search_terms[idx])} :
            /\ outcome' = [outcome EXCEPT ![idx] = Upstream[k]]
            /\ IF r.ok
               THEN /\ results' = [results EXCEPT ![idx] = r.v]
                    /\ all_items' = Extend(all_items, r.v)
                    /\ pc_main' = "sleep"
               ELSE /\ pc_main' = "raised"
                    /\ UNCHANGED <<results, all_items>>
    /\ UNCHANGED <<mode, search_terms, max_concurrent_requests, semaphore, idx,
                   task_pc, paced, slept, overtaken, sent, df, save_path, out_log,
                   stdout, file>>

\* How often the delay was slept after a term, once time.sleep(...) ran.
TimeSleepSkipped(count) == count
TimeSleep(count) == count + 1

\* time.sleep(self.request_delay), then the next term.
SeqSleep ==
    /\ mode = "sequential"
    /\ pc_main = "sleep"
    /\ slept' = [slept EXCEPT ![idx] = TimeSleep(slept[idx])]
    /\ idx' = idx + 1
    /\ pc_main' = "start"
    /\ UNCHANGED <<mode, search_terms, max_concurrent_requests, semaphore,
                   task_pc, outcome, results, paced, overtaken, sent,
                   all_items, df, save_path, out_log, stdout, file>>

\* After the loop: build and process the DataFrame, return it.
SeqFinish ==
    /\ mode = "sequential"
    /\ pc_main = "start"
    /\ idx > Len(search_terms)
    /\ \E t \in {BuildTable(all_items)} :
          IF t.ok THEN df' = t.v /\ pc_main' = "returned"
          ELSE df' = df /\ pc_main' = "raised"
    /\ UNCHANGED <<mode, search_terms, max_concurrent_requests, semaphore, idx,
                   task_pc, outcome, results, paced, slept, overtaken, sent,
                   all_items, save_path, out_log, stdout, file>>

\* ------------------------------------------------------- concurrent mode
\* async with aiohttp.ClientSession() as session: one coroutine per term,
\* asyncio.gather schedules them all.
Launch ==
    /\ mode = "concurrent"
    /\ pc_main = "start"
    /\ task_pc' = [i \in Terms |-> "ready"]
    /\ pc_main' = "gather"
    /\ UNCHANGED <<mode, search_terms, max_concurrent_requests, semaphore, idx,
                   outcome, results, paced, slept, overtaken, sent, all_items, df,
                   save_path, out_log, stdout, file>>

\* fetch_page: `async with self.semaphore` is entered and session.get(url)
\* goes on the wire.
Acquire(i) ==
    /\ task_pc[i] = "ready"
    /\ SemaphoreFree(semaphore)
    /\ semaphore' = SemaphoreAcquire(semaphore)
    /\ sent' = sent \cup {GetRequest(search_terms[i], AiohttpSessionHeaders)}
    /\ task_pc' = [task_pc EXCEPT ![i] = "get"]
    /\ UNCHANGED <<mode, search_terms, max_concurrent_requests, pc_main, idx,
                   outcome, results, paced, slept, overtaken, all_items, df,
                   save_path, out_log, stdout, file>>

\* The slot after fetch_page left `async with self.semaphore`.
ExitSemaphoreKeepsSlot(value) == value
ExitSemaphore(value) == SemaphoreRelease(value)

\* The rest of the task once fetch_page is over: the slot is released, then
\* scrape_search_term runs to its return without suspending.  An exception
\* that left the task would leave gather and scrape_search_terms at once.
TaskReturns(i, o) ==
    \E r \in {async_scrape_search_term(fetch_page(o), search_terms[i])} :
        /\ semaphore' = ExitSemaphore(semaphore)
        /\ overtaken' = (overtaken \/ \E j \in 1..(i - 1) :
                                        task_pc[j] \notin {"done", "raised"})
        /\ IF r.ok
           THEN /\ results' = [results EXCEPT ![i] = r.v]
                /\ task_pc' = [task_pc EXCEPT ![i] = "done"]
                /\ pc_main' = pc_main
           ELSE /\ results' = results
                /\ task_pc' = [task_pc EXCEPT ![i] = "raised"]
                /\ pc_main' = IF pc_main = "gather" THEN "raised" ELSE pc_main

\* session.get(url) is answered (status line and headers; the body is read
\* by response.text()) and raise_for_status() has run: on success the task
\* goes on to the pacing delay, on aiohttp.ClientError fetch_page logs and
\* returns None.
GetReturns(i) ==
    /\ task_pc[i] = "get"
    /\ \E k \in 1..Len(Upstream) :
        IF AiohttpGet(Upstream[k]).ok
        THEN /\ task_pc' = [task_pc EXCEPT ![i] = "sleep"]
             /\ UNCHANGED <<outcome, semaphore, overtaken, results, pc_main>>
        ELSE /\ outcome' = [outcome EXCEPT ![i] = Upstream[k]]
             /\ TaskReturns(i, Upstream[k])
    /\ UNCHANGED <<mode, search_terms, max_concurrent_requests, idx, paced, slept,
                   sent, all_items, df, save_path, out_log, stdout, file>>

\* await asyncio.sleep(self.request_delay) is over.
SleepDone(i) ==
    /\ task_pc[i] = "sleep"
    /\ paced' = [paced EXCEPT ![i] = TRUE]
    /\ task_pc' = [task_pc EXCEPT ![i] = "text"]
    /\ UNCHANGED <<mode, search_terms, max_concurrent_requests, semaphore,
                   pc_main, idx, outcome, results, slept, overtaken, sent,
                   all_items, df, save_path, out_log, stdout, file>>

\* await response.text() is over: the body of the successful response is
\* in, fetch_page returns the text.
TextReturns(i) ==
    /\ task_pc[i] = "text"
    /\ \E k \in 1..Len(Upstream) :
        /\ AiohttpGet(Upstream[k]).ok
        /\ outcome' = [outcome EXCEPT ![i] = Upstream[k]]
        /\ TaskReturns(i, Upstream[k])
    /\ UNCHANGED <<mode, search_terms, max_concurrent_requests, idx, paced, slept,
                   sent, all_items, df, save_path, out_log, stdout, file>>

\* gather returns once every task is done; the session is closed, the
\* results are flattened, the DataFrame is built and processed.
GatherReturns ==
    /\ mode = "concurrent"
    /\ pc_main = "gather"
    /\ \A i \in Terms : task_pc[i] = "done"
    /\ all_items' = Flatten(results, Len(search_terms))
    /\ \E t \in {BuildTable(all_items')} :
          IF t.ok THEN df' = t.v /\ pc_main' = "returned"
          ELSE df' = df /\ pc_main' = "raised"
    /\ UNCHANGED <<mode, search_terms, max_concurrent_requests, semaphore, idx,
                   task_pc, outcome, results, paced, slept, overtaken, sent,
                   save_path, out_log, stdout, file>>

\* ------------------------------------------------------------- Output Step
\* format_results without the early return on an empty table.
FileAfterNoEarlyReturn(table, path, old) ==
    IF SavePathGiven(path) THEN to_csv(table) ELSE old

\* What is at the save path after format_results(df, path).
FileAfter(table, path, old) ==
    IF IsEmptyTable(table) THEN old
    ELSE IF SavePathGiven(path) THEN to_csv(table)
    ELSE old

\* What format_results prints.
Printed(table) ==
    IF IsEmptyTable(table) THEN <<>>
    ELSE << [text |-> "\nFound Items:", rows |-> <<>>],
            [text |-> "", rows |-> Display(table)] >>

\* What format_results logs.
Logged(table, path) ==
    IF IsEmptyTable(table) THEN <<"No items found">>
    ELSE IF SavePathGiven(path) THEN <<"Results saved to">>
    ELSE <<>>

SavePaths == {"", "bidfta_results.csv"}

\* The caller hands the returned table to format_results /
\* format_async_results, with or without a save path.
FormatResults ==
    /\ pc_main = "returned"
    /\ \E p \in SavePaths :
        /\ save_path' = p
        /\ out_log' = out_log \o Logged(df, p)
        /\ stdout' = stdout \o Printed(df)
        /\ file' = FileAfter(df, p, file)
    /\ pc_main' = "formatted"
    /\ UNCHANGED <<mode, search_terms, max_concurrent_requests, semaphore, idx,
                   task_pc, outcome, results, paced, slept, overtaken, sent,
                   all_items, df>>

\* ------------------------------------------------------------ specification
Next ==
    \/ SeqSend
    \/ SeqReceive
    \/ SeqSleep
    \/ SeqFinish
    \/ Launch
    \/ \E i \in Terms : Acquire(i)
    \/ \E i \in Terms : GetReturns(i)
    \/ \E i \in Terms : SleepDone(i)
    \/ \E i \in Terms : TextReturns(i)
    \/ GatherReturns
    \/ FormatResults

Spec == Init /\ [][Next]_vars

\* The event loop runs every ready task, and every network call and every
\* sleep of concurrent mode comes to an end.
ConcurrentStep ==
    \/ Launch
    \/ \E i \in Terms : Acquire(i) \/ GetReturns(i) \/ SleepDone(i) \/ TextReturns(i)
    \/ GatherReturns

FairSpec == Spec /\ WF_vars(ConcurrentStep)

\* ------------------------------------------------------------------ claims
\* The tasks past the acquire point of the gate and before its release point.
InFlight == {i \in Terms : task_pc[i] \in {"get", "sleep", "text"}}

\* scrape_search_terms is over: it returned its table or raised.
Over == pc_main \in {"returned", "raised", "formatted"}

\* C1: in concurrent mode with max_concurrent_requests = N, never more than
\* N fetches are past the gate's acquire point and before its release point.
C1_GateBound ==
    mode = "concurrent" => Cardinality(InFlight) <= max_concurrent_requests

\* The gate is full while a further task waits for a slot.
C1_Witness ==
    /\ mode = "concurrent"
    /\ Cardinality(InFlight) = max_concurrent_requests
    /\ \E i \in Terms : task_pc[i] = "ready"

\* Term i's scrape is over.
Finished(i) ==
    IF mode = "sequential"
    THEN i < idx \/ (i = idx /\ pc_main = "sleep")
    ELSE task_pc[i] \in {"done", "raised"}

AllFetched == \A i \in Terms : Finished(i)

\* What the answer to term i holds: the records of its body, nothing after
\* a transport failure or when the body cannot be read.
Contribution(i) ==
    IF TransportFailure(outcome[i]) THEN <<>>
    ELSE LET r == ParseAndExtract(outcome[i].body, search_terms[i])
         IN  IF r.ok THEN r.v ELSE <<>>

\* C2: in both modes a transport failure on one term never aborts
\* scrape_search_terms (the only exception that leaves it is the
\* aggregation's, after every term was fetched); the failing term yields no
\* record and every term contributes what its own answer holds, whatever
\* the other terms' answers were.
C2_FailureIsolated ==
    /\ pc_main = "raised" => AllFetched /\ ~BuildTable(all_items).ok
    /\ \A i \in Terms :
          Finished(i) /\ TransportFailure(outcome[i]) => results[i] = <<>>
    /\ \A i \in Terms : Finished(i) => results[i] = Contribution(i)
    /\ Over => all_items =
                 Flatten([i \in Terms |-> Contribution(i)], Len(search_terms))

\* One term failed at the transport level, another one brought records, and
\* the table was returned.
C2_Witness ==
    /\ pc_main = "returned"
    /\ \E i, j \in Terms :
          /\ TransportFailure(outcome[i])
          /\ results[i] = <<>>
          /\ results[j] # <<>>

Position(term) == CHOOSE i \in Terms : search_terms[i] = term

\* C3: in concurrent mode the flattened records are ordered by the position
\* of their search term in the input list, whatever order the tasks
\* finished in.
C3_InputOrder ==
    mode = "concurrent" /\ Over =>
        \A a, b \in 1..Len(all_items) :
            a < b => Position(all_items[a].search_term)
                        <= Position(all_items[b].search_term)

\* A later term's task finished before an earlier term's, and records of
\* two terms were flattened.
C3_Witness ==
    /\ mode = "concurrent"
    /\ overtaken
    /\ pc_main = "returned"
    /\ \E a, b \in 1..Len(all_items) :
          all_items[a].search_term # all_items[b].search_term

\* C4: scrape_search_terms returns a table with exactly one row per record
\* built by BidFTAItem, also for records whose optional fields hold their
\* defaults.
C4_OneRowPerRecord ==
    Over => pc_main # "raised" /\ Len(df) = Len(all_items)

\* The JSON of the answer could not be decoded, or an exception ended the
\* traversal or the conversion of a raw item.
ExtractionRaised(o, term) ==
    /\ ~TransportFailure(o)
    /\ o.body.script
    /\ \/ ~JsonLoads(o.body.text).ok
       \/ ExtractTry(o.body.text.doc, term).exc # "none"

\* C5: extraction never raises past its boundary, and whenever decoding,
\* traversal or the conversion of a raw item raised, the extraction result
\* is the empty sequence.
C5_EmptyOnException ==
    /\ pc_main = "raised" => AllFetched
    /\ \A i \in Terms :
          Finished(i) /\ ExtractionRaised(outcome[i], search_terms[i])
              => results[i] = <<>>

RECURSIVE SequentialItems(_)
SequentialItems(n) ==
    IF n = 0 THEN <<>>
    ELSE Extend(SequentialItems(n - 1),
                scrape_search_term(outcome[n], search_terms[n]).v)

\* C7: for one assignment of answers to terms, the run (sequential, or
\* concurrent under any interleaving) ends with the records, in the order,
\* and with the table or the exception, of the sequential scraper.
C7_SameAsSequential ==
    Over /\ AllFetched =>
        LET items == SequentialItems(Len(search_terms))
        IN  /\ all_items = items
            /\ (pc_main = "raised") = ~BuildTable(items).ok
            /\ pc_main # "raised" => df = BuildTable(items).v

\* A concurrent run finished out of input order, with records and with an
\* error page that carries listing data.
C7_Witness ==
    /\ mode = "concurrent"
    /\ overtaken
    /\ pc_main = "returned"
    /\ all_items # <<>>
    /\ \E i \in Terms : TransportFailure(outcome[i]) /\ outcome[i].body.script

\* C8: every GET, in both modes, carries the fixed browser User-Agent.
C8_BrowserUserAgent ==
    \A r \in sent : r.headers["User-Agent"] = Browser

\* C9: in concurrent mode no slot is released by a task that has not
\* finished its pacing delay.
C9_PacedBeforeRelease ==
    \A i \in Terms :
        mode = "concurrent" /\ task_pc[i] \in {"done", "raised"} => paced[i]

\* C10: in concurrent mode scrape_search_terms is over only when every term
\* task is done and every slot is back, and once the tasks are launched it
\* does get there.
C10_RunsToCompletion ==
    /\ [](mode = "concurrent" /\ Over =>
            /\ \A i \in Terms : task_pc[i] = "done"
            /\ semaphore = max_concurrent_requests)
    /\ (mode = "concurrent" /\ pc_main = "gather") ~> Over

\* A concurrent run with more terms than slots, one of them failed, is over.
C10_Witness ==
    /\ mode = "concurrent"
    /\ Len(search_terms) > max_concurrent_requests
    /\ Over
    /\ semaphore = max_concurrent_requests
    /\ \E i \in Terms : TransportFailure(outcome[i])

\* The GET for term i is on the wire or was answered.
Started(i) ==
    \E r \in sent : r.url = build_url(search_terms[i], "616")

\* Term i's fetch and extraction are over: scrape_search_term returned and
\* the loop body extended all_items.
Scraped(i) == outcome[i] # Pending

\* C11: in sequential mode the fetch for a term starts only after every
\* earlier term was fetched, extracted and followed by the delay; at most
\* one term is between its fetch and its return; the delay is slept after
\* the term's scrape only, never twice, and once for every term by the time
\* the next fetch starts or scrape_search_terms is over, whatever the term's
\* scrape yielded.
C11_SequentialOrder ==
    mode = "sequential" =>
        /\ \A i \in Terms :
              Started(i) => \A j \in 1..(i - 1) : Scraped(j) /\ slept[j] = 1
        /\ Cardinality({i \in Terms : Started(i) /\ ~Scraped(i)}) <= 1
        /\ \A i \in Terms :
              /\ slept[i] <= 1
              /\ slept[i] = 1 => Scraped(i)
        /\ Over => \A i \in Terms : Started(i) /\ Scraped(i) /\ slept[i] = 1

\* The fetch of a later term is on the wire after an earlier term's fetch
\* failed and another term's extraction raised, each followed by the delay.
C11_Witness ==
    /\ mode = "sequential"
    /\ pc_main = "request"
    /\ idx >= 3
    /\ \E i \in 1..(idx - 1) : TransportFailure(outcome[i]) /\ slept[i] = 1
    /\ \E i \in 1..(idx - 1) :
          /\ ExtractionRaised(outcome[i], search_terms[i])
          /\ slept[i] = 1
    /\ Started(idx) /\ ~Scraped(idx)

====
